---- MODULE Spec2Model ----
(***************************************************************************)
(* Model of the ffmpeg/ffprobe installer: src/index.js (support matrix and *)
(* default install paths) and src/install.js (existing-binaries check,     *)
(* URL normalisation, downloadFile, extractTarXz, extractZip and the       *)
(* promise chain that installs ffmpeg, then ffprobe, then cleans up).      *)
(*                                                                         *)
(* Spec         : one installer run, from `node install.js` to process     *)
(*                exit.                                                    *)
(* SpecLive     : Spec, with every step that can be taken being taken.     *)
(* SpecSequence : runs of the installer one after another on one machine.  *)
(* SpecRuns     : two installer processes and their temporary directories. *)
(* SpecNorm     : normalizeS3Url applied to bounded URLs.                  *)
(*                                                                         *)
(* The environment decides how each request, stream, child process and     *)
(* file-system call ends; the model tries every outcome. Not modelled: the *)
(* proxy agent (install.js 42-54), the cache store behind http-basic, the  *)
(* progress bar (223-240) and the console output.                          *)
(***************************************************************************)
EXTENDS Integers, Sequences, FiniteSets, TLC

VARIABLES
    platform,      \* process.env.npm_config_platform || os.platform()
    arch,          \* process.env.npm_config_arch || os.arch()
    startFiles,    \* what was at the two final binary paths when the run began
    finalFile,     \* what is at the two final binary paths now
    ffmpegPath,    \* install.js `let ffmpegPath` (null or a path)
    ffprobePath,   \* install.js `let ffprobePath`
    pc,            \* position of the top-level script / of the promise chain
    status,        \* "running", "exit0", "exit1"
    dirs,          \* tempDir / extractDir / binDir on disk
    plan,          \* ffmpegDownloadUrl, ffmpegDownloadPath, isCustomFFmpeg, ffprobeDownloadUrl
    dl,            \* state of each downloadFile call
    archive,       \* the downloaded archive in tempDir
    proc,          \* the xz and tar child processes of extractTarXz
    zip,           \* the yauzl zipfile of extractZip: its state, the entries not
                   \* yet read, what was made of the entries read, the error met
    extractPromise,\* the promise returned by extractTarXz / extractZip
    extracted,     \* the paths written under extractDir
    steps,         \* outcome of copyFileSync, of each chmodSync and of rmSync
    url,           \* SpecNorm: the raw URL given to normalizeS3Url
    href,          \* SpecNorm: what normalizeS3Url returned
    now,           \* SpecRuns: Date.now(), in milliseconds
    runs,          \* SpecRuns: the installer processes sharing os.tmpdir()
    tmpDirs,       \* SpecRuns: the ffmpeg-static-* directories in os.tmpdir()
    tmpFiles       \* SpecRuns: the files in them, each with the run that wrote it

runVars == <<platform, arch, startFiles, finalFile, ffmpegPath, ffprobePath, pc,
             status, dirs, plan, dl, archive, proc, zip, extractPromise,
             extracted, steps>>
normVars == <<url, href>>
tmpVars == <<now, runs, tmpDirs, tmpFiles>>
vars == <<runVars, normVars, tmpVars>>

(***************************************************************************)
(* src/index.js                                                            *)
(***************************************************************************)
\* The platforms and architectures a run is tried on: the ones the support
\* matrix names, and one of each it does not name.
Platforms == {"darwin", "freebsd", "linux", "win32", "sunos"}
Archs == {"x64", "arm64", "ia32", "arm", "ppc64"}

binaries ==
    [darwin |-> {"x64", "arm64"},
     freebsd |-> {"x64"},
     linux |-> {"x64", "ia32", "arm64", "arm"},
     win32 |-> {"x64", "ia32"}]

\* path.join(__dirname, 'bin', platform === 'win32' ? 'ffmpeg.exe' : 'ffmpeg')
binPath(tool, p) ==
    <<"bin", IF p = "win32" THEN tool \o ".exe" ELSE tool>>

\* A path that is null in the JavaScript.
null == <<>>

\* !binaries[platform] || binaries[platform].indexOf(arch) === -1
unsupported(p, a) ==
    \/ p \notin DOMAIN binaries
    \/ a \notin binaries[p]

indexFfmpegPath(p, a) ==
    IF unsupported(p, a) THEN null ELSE binPath("ffmpeg", p)

indexFfprobePath(p, a) ==
    IF unsupported(p, a) THEN null ELSE binPath("ffprobe", p)

(***************************************************************************)
(* State of one run                                                        *)
(***************************************************************************)
Bins == {"ffmpeg", "ffprobe"}

\* What fs.statSync finds at a final path when the run begins: nothing
\* (ENOENT), a regular file, a directory, or an error other than ENOENT.
StatKinds == {"ENOENT", "file", "dir", "EACCES"}

DlIds == {"ffmpeg", "ffprobe", "ffmpegReadme", "ffmpegLicense",
          "ffprobeReadme", "ffprobeLicense"}

NoPlan ==
    [ffmpegDownloadUrl |-> <<>>, ffmpegDownloadPath |-> <<>>,
     isCustomFFmpeg |-> FALSE, ffprobeDownloadUrl |-> <<>>]

\* The installer processes of SpecRuns, and one that has not started.
Runs == {1, 2}

NoRun == [pc |-> "idle", tempDir |-> -1, fresh |-> FALSE]

\* A downloadFile call that has not been made. `response` is <<>> or the
\* response's <<url, statusCode>>; `errProps` is what the rejection's error
\* carries, <<>> or <<url, statusCode>>; `settleCalls` counts the calls of
\* fulfill and reject.
NoDownload ==
    [state |-> "idle", cause |-> "none", url |-> <<>>, dest |-> <<>>,
     response |-> <<>>, errProps |-> <<>>, settleCalls |-> 0]

Init ==
    /\ platform \in Platforms
    /\ arch \in Archs
    /\ startFiles \in [Bins -> StatKinds]
    /\ finalFile = startFiles
    /\ ffmpegPath = indexFfmpegPath(platform, arch)
    /\ ffprobePath = indexFfprobePath(platform, arch)
    /\ pc = "checkExisting"
    /\ status = "running"
    /\ dirs = [tempDir |-> "none", extractDir |-> "none", binDir |-> "unknown"]
    /\ plan = NoPlan
    /\ dl = [i \in DlIds |-> NoDownload]
    /\ archive = "none"
    /\ proc = [xz |-> "none", tar |-> "none"]
    /\ zip = [state |-> "none", entries |-> <<>>, processed |-> <<>>,
              error |-> "none"]
    /\ extractPromise = "none"
    /\ extracted = {}
    /\ steps = [copy |-> "none", chmodFfmpeg |-> "none", chmodFfprobe |-> "none",
                cleanup |-> "none"]
    /\ url = <<>>
    /\ href = <<>>
    /\ now = 0
    /\ runs = [r \in Runs |-> NoRun]
    /\ tmpDirs = {}
    /\ tmpFiles = {}

\* process.exit(code): the process is gone, no handler runs after it.
exit(code) ==
    /\ status' = code
    /\ pc' = "exited"

\* exitOnError: console.error(err); process.exit(1)
exitOnError == exit("exit1")

(***************************************************************************)
(* install.js 30-40: the existing-binaries check                           *)
(***************************************************************************)
\* The check with its test negated: regular files do not count as installed.
existingCheckNegated(f, g) ==
    CASE f = "EACCES" -> "fatal"
      [] f = "ENOENT" -> "install"
      [] f = "dir" ->
           CASE g = "EACCES" -> "fatal"
             [] g = "dir" -> "installed"
             [] OTHER -> "install"
      [] OTHER -> "install"

\* fs.statSync(p).isFile() && fs.statSync(q).isFile(), with the catch:
\* "installed" when both are regular files, "fatal" when a stat throws
\* something other than ENOENT, "install" otherwise.
existingCheck(f, g) ==
    CASE f = "EACCES" -> "fatal"
      [] f = "ENOENT" -> "install"
      [] f = "dir" -> "install"
      [] OTHER ->
           CASE g = "EACCES" -> "fatal"
             [] g \in {"file", "partial"} -> "installed"
             [] OTHER -> "install"

CheckExisting ==
    /\ status = "running"
    /\ pc = "checkExisting"
    /\ LET r == IF ffmpegPath # null /\ ffprobePath # null
                THEN existingCheck(finalFile["ffmpeg"], finalFile["ffprobe"])
                ELSE "install"
       IN CASE r = "installed" -> exit("exit0")
            [] r = "fatal" -> exitOnError
            [] OTHER -> /\ pc' = "createDirs"
                        /\ UNCHANGED status
    /\ UNCHANGED <<platform, arch, startFiles, finalFile, ffmpegPath, ffprobePath,
                   dirs, plan, dl, archive, proc, zip, extractPromise, extracted,
                   steps, normVars, tmpVars>>

(***************************************************************************)
(* install.js 246-268: temporary directory, bin directory, fallback paths  *)
(***************************************************************************)
\* if (!ffmpegPath) { ...; ffmpegPath = path.join(binDir, ...) }
fallbackPath(cur, tool, p) ==
    IF cur = null THEN binPath(tool, p) ELSE cur

CreateDirs ==
    /\ status = "running"
    /\ pc = "createDirs"
    /\ dirs' = [tempDir |-> "exists", extractDir |-> "exists", binDir |-> "exists"]
    /\ ffmpegPath' = fallbackPath(ffmpegPath, "ffmpeg", platform)
    /\ ffprobePath' = fallbackPath(ffprobePath, "ffprobe", platform)
    /\ pc' = "resolve"
    /\ UNCHANGED <<platform, arch, startFiles, finalFile, status, plan, dl, archive,
                   proc, zip, extractPromise, extracted, steps, normVars, tmpVars>>

(***************************************************************************)
(* install.js 270-332: platform names and download sources                 *)
(***************************************************************************)
\* The value that stands for "the default branch called exitOnError".
Unsupported == "unsupported"

getOriginalPlatformName(p, a) ==
    CASE p = "win32" -> IF a = "arm64" THEN "win-arm64" ELSE "win32-x64"
      [] p = "darwin" -> IF a = "arm64" THEN "darwin-arm64" ELSE "darwin-x64"
      [] p = "linux" -> IF a = "arm64" THEN "linux-arm64" ELSE "linux-x64"
      [] OTHER -> Unsupported

getFFmpegCustomPlatformName(p, a) ==
    CASE p = "win32" -> IF a = "arm64" THEN "winarm64" ELSE "win64"
      [] p = "linux" -> IF a = "arm64" THEN "linuxarm64" ELSE "linux64"
      [] OTHER -> Unsupported

\* platform === 'win32' ? 'ffmpeg.exe' : 'ffmpeg'
ffmpegExe(p) == IF p = "win32" THEN "ffmpeg.exe" ELSE "ffmpeg"

\* install.js 321: const ffmpegFileExtension = platform === 'win32' ? 'zip' : 'tar.xz'
ffmpegFileExtension(p) == IF p = "win32" THEN "zip" ELSE "tar.xz"

\* install.js 309-318
isCustomFFmpeg(p) == p # "darwin"

\* `${originalBaseUrl}${release}/ffmpeg-${originalPlatformName}` on darwin,
\* `${ffmpegBaseUrl}/ffmpeg-master-latest-${ffmpegPlatformName}-nonfree.${ext}` elsewhere.
\* A URL is the sequence <<base, tool, platform name, extension>>.
ffmpegDownloadUrl(p, a) ==
    IF isCustomFFmpeg(p)
    THEN <<"ffmpegBaseUrl", "ffmpeg-master-latest", getFFmpegCustomPlatformName(p, a),
           ffmpegFileExtension(p)>>
    ELSE <<"originalBaseUrl", "ffmpeg", getOriginalPlatformName(p, a), "">>

\* ffmpegPath on darwin, path.join(tempDir, ffmpegFileName) elsewhere
ffmpegDownloadPath(p, a, final) ==
    IF isCustomFFmpeg(p)
    THEN <<"tempDir", getFFmpegCustomPlatformName(p, a), ffmpegFileExtension(p)>>
    ELSE final

\* `${originalBaseUrl}${release}/ffprobe-${originalPlatformName}`
ffprobeDownloadUrl(p, a) ==
    <<"originalBaseUrl", "ffprobe", getOriginalPlatformName(p, a), "">>

\* `${originalBaseUrl}${release}/${originalPlatformName}.README` / .LICENSE
docUrl(p, a, ext) ==
    <<"originalBaseUrl", "", getOriginalPlatformName(p, a), ext>>

\* `${ffmpegPath}.README`
docPath(final, ext) == Append(final, ext)

\* Lines 304-332: getOriginalPlatformName() runs first and its default branch
\* exits; getFFmpegCustomPlatformName() runs only off darwin.
Resolve ==
    /\ status = "running"
    /\ pc = "resolve"
    /\ IF \/ getOriginalPlatformName(platform, arch) = Unsupported
          \/ /\ isCustomFFmpeg(platform)
             /\ getFFmpegCustomPlatformName(platform, arch) = Unsupported
       THEN /\ exitOnError
            /\ UNCHANGED plan
       ELSE /\ plan' = [ffmpegDownloadUrl |-> ffmpegDownloadUrl(platform, arch),
                        ffmpegDownloadPath |->
                            ffmpegDownloadPath(platform, arch, ffmpegPath),
                        isCustomFFmpeg |-> isCustomFFmpeg(platform),
                        ffprobeDownloadUrl |-> ffprobeDownloadUrl(platform, arch)]
            /\ pc' = "startFfmpeg"
            /\ UNCHANGED status
    /\ UNCHANGED <<platform, arch, startFiles, finalFile, ffmpegPath, ffprobePath,
                   dirs, dl, archive, proc, zip, extractPromise, extracted, steps,
                   normVars, tmpVars>>

(***************************************************************************)
(* install.js 90-144: downloadFile                                         *)
(***************************************************************************)
\* A call of downloadFile(u, d): the request is issued, the promise pending.
downloadFile(i, u, d) ==
    [dl EXCEPT ![i] = [state |-> "requested", cause |-> "none", url |-> u,
                       dest |-> d, response |-> <<>>, errProps |-> <<>>,
                       settleCalls |-> 0]]

\* Two calls issued by the same handler.
downloadFile2(i, u, d, j, v, e) ==
    [dl EXCEPT ![i] = [state |-> "requested", cause |-> "none", url |-> u,
                       dest |-> d, response |-> <<>>, errProps |-> <<>>,
                       settleCalls |-> 0],
               ![j] = [state |-> "requested", cause |-> "none", url |-> v,
                       dest |-> e, response |-> <<>>, errProps |-> <<>>,
                       settleCalls |-> 0]]

\* Whether fs.createWriteStream / copyFileSync can write where `k` is.
writable(k) == k \in {"ENOENT", "file", "partial"}

\* The final binary a download writes to directly, if any.
finalOf(i) ==
    CASE i = "ffmpeg" /\ ~plan.isCustomFFmpeg -> {"ffmpeg"}
      [] i = "ffprobe" -> {"ffprobe"}
      [] OTHER -> {}

\* What is at the destination of download `i`.
destKind(i) ==
    CASE finalOf(i) # {} -> finalFile[CHOOSE b \in finalOf(i) : TRUE]
      [] i = "ffmpeg" -> IF archive = "none" THEN "ENOENT" ELSE archive
      [] OTHER -> "ENOENT"

\* The destination of download `i` now holds `k`.
destBecomes(i, k) ==
    /\ finalFile' = [b \in Bins |-> IF b \in finalOf(i) THEN k ELSE finalFile[b]]
    /\ archive' = IF i = "ffmpeg" /\ plan.isCustomFFmpeg THEN k ELSE archive

settled(i) == dl[i].state \in {"fulfilled", "rejected"}

\* The status codes a response of the model carries.
StatusCodes == {200, 404, 500}

\* The responses the request's callback can be given for URL u, as
\* <<response.url, response.statusCode>>; <<>> is `response` undefined, which
\* is how a transport error is reported. (A followed redirect would make
\* response.url differ from u; the code only copies it.)
Responses(u) == {<<>>} \cup {<<u, c>> : c \in StatusCodes}

\* The rejection with nothing attached to the error.
errPropsNone(resp) == <<>>

\* install.js 111-114, 127-128: err.url = response.url; err.statusCode =
\* response.statusCode, when there is a response.
errProps(resp) == IF resp # <<>> THEN resp ELSE <<>>

\* install.js 115, 129: reject(err). A settled promise stays as it is.
reject(d, why, resp) ==
    [d EXCEPT !.state = IF d.settleCalls = 0 THEN "rejected" ELSE @,
              !.cause = IF d.settleCalls = 0 THEN why ELSE @,
              !.errProps = IF d.settleCalls = 0 THEN errProps(resp) ELSE @,
              !.settleCalls = @ + 1]

\* install.js 130: fulfill()
fulfill(d) ==
    [d EXCEPT !.state = IF d.settleCalls = 0 THEN "fulfilled" ELSE @,
              !.settleCalls = @ + 1]

\* install.js 82-86: the last segment of the URL's path ends in .gz
isGzUrl(u) == u # <<>> /\ u[Len(u)] = "gz"

\* install.js 120-122: the stages of the pipeline
streams(u) ==
    IF isGzUrl(u) THEN <<"response.body", "createGunzip", "file">>
    ELSE <<"response.body", "file">>

\* Lines 108-122: the request's callback. A transport error or a status other
\* than 200 rejects; otherwise the destination is opened for writing (which
\* creates or truncates it) and the pipeline starts.
Response(i) ==
    /\ status = "running"
    /\ dl[i].state = "requested"
    /\ \E resp \in Responses(dl[i].url) :
         IF resp # <<>> /\ resp[2] = 200
         THEN /\ dl' = [dl EXCEPT ![i].state = "streaming", ![i].response = resp]
              /\ IF writable(destKind(i))
                 THEN destBecomes(i, "partial")
                 ELSE UNCHANGED <<finalFile, archive>>
         ELSE /\ dl' = [dl EXCEPT ![i] =
                           reject([@ EXCEPT !.response = resp],
                                  IF resp = <<>> THEN "transport" ELSE "status",
                                  resp)]
              /\ UNCHANGED <<finalFile, archive>>
    /\ UNCHANGED <<platform, arch, startFiles, ffmpegPath, ffprobePath, pc, status,
                   dirs, plan, proc, zip, extractPromise, extracted, steps,
                   normVars, tmpVars>>

\* Lines 123-132: the pipeline's callback, called once when every stage has
\* finished or when one of them failed. An error rejects and leaves what was
\* written so far; success fulfils with the whole payload written.
PipelineDone(i) ==
    /\ status = "running"
    /\ dl[i].state = "streaming"
    /\ \E failed \in {0} \cup DOMAIN streams(dl[i].url) :
         IF failed = 0 /\ writable(destKind(i))
         THEN /\ dl' = [dl EXCEPT ![i] = fulfill(@)]
              /\ destBecomes(i, "file")
         ELSE /\ dl' = [dl EXCEPT ![i] = reject(@, "pipeline", @.response)]
              /\ UNCHANGED <<finalFile, archive>>
    /\ UNCHANGED <<platform, arch, startFiles, ffmpegPath, ffprobePath, pc, status,
                   dirs, plan, proc, zip, extractPromise, extracted, steps,
                   normVars, tmpVars>>

(***************************************************************************)
(* install.js 334-390: download and install ffmpeg                         *)
(***************************************************************************)
\* Lines 339 / 367: both branches begin with the same downloadFile call.
StartFfmpeg ==
    /\ status = "running"
    /\ pc = "startFfmpeg"
    /\ dl' = downloadFile("ffmpeg", plan.ffmpegDownloadUrl, plan.ffmpegDownloadPath)
    /\ pc' = "ffmpegDownload"
    /\ UNCHANGED <<platform, arch, startFiles, finalFile, ffmpegPath, ffprobePath,
                   status, dirs, plan, archive, proc, zip, extractPromise,
                   extracted, steps, normVars, tmpVars>>

\* Line 342 with its two extensions exchanged.
fileExtensionSwapped(p) == IF p = "win32" THEN "tar.xz" ELSE "zip"

\* install.js 342: const fileExtension = platform === 'win32' ? 'zip' : 'tar.xz'
fileExtension(p) == IF p = "win32" THEN "zip" ELSE "tar.xz"

\* Lines 340-348: the archive is downloaded; start the extractor chosen by
\* fileExtension. extractTarXz spawns xz and tar (152-156); extractZip calls
\* yauzl.open (189).
ThenExtract ==
    /\ status = "running"
    /\ pc = "ffmpegDownload"
    /\ plan.isCustomFFmpeg
    /\ dl["ffmpeg"].state = "fulfilled"
    /\ IF fileExtension(platform) = "zip"
       THEN /\ zip' = [state |-> "opening", entries |-> <<>>,
                        processed |-> <<>>, error |-> "none"]
            /\ UNCHANGED proc
       ELSE /\ proc' = [xz |-> "running", tar |-> "running"]
            /\ UNCHANGED zip
    /\ extractPromise' = "pending"
    /\ pc' = "extract"
    /\ UNCHANGED <<platform, arch, startFiles, finalFile, ffmpegPath, ffprobePath,
                   status, dirs, plan, dl, archive, extracted, steps, normVars, tmpVars>>

(***************************************************************************)
(* install.js 146-184: extractTarXz                                        *)
(***************************************************************************)
\* A promise settles once: resolve and reject do nothing after that.
settle(p, to) == IF p = "pending" THEN to ELSE p

\* A 'close' handler that only resolves: a nonzero code settles nothing.
tarCloseSilent(p, code) ==
    IF code # "exit0" THEN p ELSE settle(p, "resolved")

\* install.js 176-179: tar.on('close', code => code !== 0 ? reject : resolve)
tarClose(p, code) ==
    IF code # "exit0" THEN settle(p, "rejected") ELSE settle(p, "resolved")

\* The path tar writes: `${dirName}/bin/ffmpeg` with --strip-components=1.
tarMember == <<"bin", "ffmpeg">>

\* xz exits. Nothing listens to its 'close' or 'exit' event.
XzExit ==
    /\ status = "running"
    /\ proc.xz = "running"
    /\ \E code \in {"exit0", "exitN"} : proc' = [proc EXCEPT !.xz = code]
    /\ UNCHANGED <<platform, arch, startFiles, finalFile, ffmpegPath, ffprobePath,
                   pc, status, dirs, plan, dl, archive, zip, extractPromise,
                   extracted, steps, normVars, tmpVars>>

\* install.js 181: xz.on('error', reject), xz could not be launched.
XzError ==
    /\ status = "running"
    /\ proc.xz = "running"
    /\ proc.tar \in {"running", "error"}
    /\ proc' = [proc EXCEPT !.xz = "error"]
    /\ extractPromise' = settle(extractPromise, "rejected")
    /\ UNCHANGED <<platform, arch, startFiles, finalFile, ffmpegPath, ffprobePath,
                   pc, status, dirs, plan, dl, archive, zip, extracted, steps,
                   normVars, tmpVars>>

\* tar closes. It can exit 0 only if xz ran and wrote the whole tar stream
\* (xz may still report an error after that: a failed integrity check or
\* trailing garbage); exit 0 means the requested member was extracted.
TarClose ==
    /\ status = "running"
    /\ proc.tar = "running"
    /\ \E code \in {"exit0", "exitN"} :
         /\ code = "exit0" => proc.xz # "error"
         /\ proc' = [proc EXCEPT !.tar = code]
         /\ extractPromise' = tarClose(extractPromise, code)
         /\ extracted' = IF code = "exit0" THEN extracted \cup {tarMember}
                         ELSE extracted
    /\ UNCHANGED <<platform, arch, startFiles, finalFile, ffmpegPath, ffprobePath,
                   pc, status, dirs, plan, dl, archive, zip, steps, normVars, tmpVars>>

\* install.js 182: tar.on('error', reject), tar could not be launched.
TarError ==
    /\ status = "running"
    /\ proc.tar = "running"
    /\ proc.xz \in {"running", "error"}
    /\ proc' = [proc EXCEPT !.tar = "error"]
    /\ extractPromise' = settle(extractPromise, "rejected")
    /\ UNCHANGED <<platform, arch, startFiles, finalFile, ffmpegPath, ffprobePath,
                   pc, status, dirs, plan, dl, archive, zip, extracted, steps,
                   normVars, tmpVars>>

(***************************************************************************)
(* install.js 186-221: extractZip                                          *)
(***************************************************************************)
\* The most entries an archive of the model holds.
MaxEntries == 2

\* entry.fileName.split('/') of the entries an archive may hold: a directory
\* entry ends in '/', so its last segment is empty.
ZipEntryNames ==
    {<<"root", "bin", "">>, <<"root", "bin", "ffmpeg.exe">>,
     <<"root", "LICENSE.txt">>, <<"README.txt">>}

ZipArchives ==
    UNION {[1..n -> ZipEntryNames] : n \in 0..MaxEntries}

\* install.js 194: /\/$/.test(entry.fileName)
isDirectoryEntry(name) == name[Len(name)] = ""

\* The entry's path with nothing removed.
entryPathWhole(name) == name

\* install.js 193: entry.fileName.split('/').slice(1).join('/')
entryPath(name) == Tail(name)

\* path.join(outputDir, entryPath), relative to outputDir: empty segments go.
joinPath(segs) == SelectSeq(segs, LAMBDA x : x # "")

\* path.dirname(outputPath), relative to outputDir
dirname(p) == IF p = <<>> THEN <<>> ELSE SubSeq(p, 1, Len(p) - 1)

\* An uncaught exception (a throw in an event handler, an 'error' event
\* nobody listens to) ends the process with status 1.
uncaughtException == exit("exit1")

\* What the entry `name` was made into: a directory or a file at `at`.
made(name, kind, at) == [name |-> name, kind |-> kind, at |-> at]

\* install.js 189-190, 216-218: the callback of yauzl.open.
ZipOpen ==
    /\ status = "running"
    /\ zip.state = "opening"
    /\ \/ /\ zip' = [zip EXCEPT !.state = "failed", !.error = "open"]
          /\ extractPromise' = settle(extractPromise, "rejected")
       \/ /\ \E a \in ZipArchives :
               zip' = [state |-> "reading", entries |-> a, processed |-> <<>>,
                       error |-> "none"]
          /\ UNCHANGED extractPromise
    /\ UNCHANGED <<platform, arch, startFiles, finalFile, ffmpegPath, ffprobePath,
                   pc, status, dirs, plan, dl, archive, proc, extracted, steps,
                   normVars, tmpVars>>

\* install.js 192-200: the 'entry' handler. A directory entry is created and
\* the next entry requested (mkdirp.sync throwing inside the handler is an
\* uncaught exception); a file entry asks for its read stream.
ZipEntry ==
    /\ status = "running"
    /\ zip.state = "reading"
    /\ zip.entries # <<>>
    /\ LET name == Head(zip.entries)
           at == joinPath(entryPath(name))
       IN IF isDirectoryEntry(name)
          THEN \/ /\ extracted' = extracted \cup {at}
                  /\ zip' = [zip EXCEPT !.entries = Tail(zip.entries),
                                        !.processed = Append(@, made(name, "dir", at))]
                  /\ UNCHANGED <<pc, status>>
               \/ /\ uncaughtException
                  /\ zip' = [zip EXCEPT !.error = "mkdir"]
                  /\ UNCHANGED extracted
          ELSE /\ zip' = [zip EXCEPT !.state = "openReadStream"]
               /\ UNCHANGED <<extracted, pc, status>>
    /\ UNCHANGED <<platform, arch, startFiles, finalFile, ffmpegPath, ffprobePath,
                   dirs, plan, dl, archive, proc, extractPromise, steps, normVars, tmpVars>>

\* install.js 200-207: the callback of openReadStream. An error rejects (and
\* no further entry is requested); otherwise the parent directory is made
\* (a throw of mkdirp.sync is an uncaught exception) and the entry piped to
\* its output file.
ZipReadStream ==
    /\ status = "running"
    /\ zip.state = "openReadStream"
    /\ LET at == joinPath(entryPath(Head(zip.entries)))
       IN \/ /\ zip' = [zip EXCEPT !.state = "failed", !.error = "openReadStream"]
             /\ extractPromise' = settle(extractPromise, "rejected")
             /\ UNCHANGED <<extracted, pc, status>>
          \/ /\ zip' = [zip EXCEPT !.state = "piping"]
             /\ extracted' = IF at = <<>> THEN extracted
                             ELSE extracted \cup {dirname(at)}
             /\ UNCHANGED <<extractPromise, pc, status>>
          \/ /\ uncaughtException
             /\ zip' = [zip EXCEPT !.error = "mkdir"]
             /\ UNCHANGED <<extracted, extractPromise>>
    /\ UNCHANGED <<platform, arch, startFiles, finalFile, ffmpegPath, ffprobePath,
                   dirs, plan, dl, archive, proc, steps, normVars, tmpVars>>

\* install.js 207-211: the pipe ends. The write stream closes with the whole
\* entry written and the next entry is requested, or the read or the write
\* stream emits 'error', which nobody listens to. Writing to outputDir itself
\* (an entry with no directory part) can only fail.
ZipPipeEnds ==
    /\ status = "running"
    /\ zip.state = "piping"
    /\ LET name == Head(zip.entries)
           at == joinPath(entryPath(name))
       IN \/ /\ at # <<>>
             /\ extracted' = extracted \cup {at}
             /\ zip' = [zip EXCEPT !.state = "reading",
                                   !.entries = Tail(zip.entries),
                                   !.processed = Append(@, made(name, "file", at))]
             /\ UNCHANGED <<pc, status>>
          \/ /\ \E e \in {"read", "write"} :
                  /\ at = <<>> => e = "write"
                  /\ zip' = [zip EXCEPT !.error = e]
             /\ uncaughtException
             /\ UNCHANGED extracted
    /\ UNCHANGED <<platform, arch, startFiles, finalFile, ffmpegPath, ffprobePath,
                   dirs, plan, dl, archive, proc, extractPromise, steps, normVars, tmpVars>>

\* 'end' comes while the last entry is still being handled.
endOfEntriesEarly(z) ==
    z.state \in {"reading", "piping"} /\ Len(z.entries) <= 1

\* lazyEntries: true: 'end' is emitted by the readEntry() that finds no entry
\* left, and readEntry() is called only when the entry before is finished.
endOfEntries(z) == z.state = "reading" /\ z.entries = <<>>

\* install.js 216: zipfile.on('end', resolve)
ZipEnd ==
    /\ status = "running"
    /\ endOfEntries(zip)
    /\ zip' = [zip EXCEPT !.state = "ended"]
    /\ extractPromise' = settle(extractPromise, "resolved")
    /\ UNCHANGED <<platform, arch, startFiles, finalFile, ffmpegPath, ffprobePath,
                   pc, status, dirs, plan, dl, archive, proc, extracted, steps,
                   normVars, tmpVars>>

\* install.js 217: zipfile.on('error', reject), raised by readEntry() (a
\* malformed entry, a file name yauzl refuses).
ZipError ==
    /\ status = "running"
    /\ zip.state = "reading"
    /\ zip.entries # <<>>
    /\ zip' = [zip EXCEPT !.state = "failed", !.error = "zipfile"]
    /\ extractPromise' = settle(extractPromise, "rejected")
    /\ UNCHANGED <<platform, arch, startFiles, finalFile, ffmpegPath, ffprobePath,
                   pc, status, dirs, plan, dl, archive, proc, extracted, steps,
                   normVars, tmpVars>>

(***************************************************************************)
(* install.js 349-390: install ffmpeg, documentation, failure handler      *)
(***************************************************************************)
\* No platform gets a permission change.
makesExecutableNever(p) == FALSE

\* install.js 359, 370, 397: if (platform !== 'win32') fs.chmodSync(path, 0o755)
makesExecutable(p) == p # "win32"

\* Lines 349-364: copy the extracted binary to ffmpegPath and make it
\* executable off win32. A throw rejects ffmpegPromise.
InstallFfmpeg ==
    /\ status = "running"
    /\ pc = "extract"
    /\ extractPromise = "resolved"
    /\ LET src == <<"bin", ffmpegExe(platform)>>
       IN \E copied \in BOOLEAN, chmodded \in BOOLEAN :
            IF copied /\ src \in extracted /\ writable(finalFile["ffmpeg"])
            THEN /\ finalFile' = [finalFile EXCEPT !["ffmpeg"] = "file"]
                 /\ IF makesExecutable(platform)
                    THEN IF chmodded
                         THEN /\ steps' = [steps EXCEPT !.copy = "ok",
                                                        !.chmodFfmpeg = "ok"]
                              /\ pc' = "ffmpegFulfilled"
                         ELSE /\ steps' = [steps EXCEPT !.copy = "ok",
                                                        !.chmodFfmpeg = "threw"]
                              /\ pc' = "ffmpegRejected"
                    ELSE /\ steps' = [steps EXCEPT !.copy = "ok"]
                         /\ pc' = "ffmpegFulfilled"
            ELSE /\ steps' = [steps EXCEPT !.copy = "threw"]
                 /\ pc' = "ffmpegRejected"
                 /\ UNCHANGED finalFile
    /\ UNCHANGED <<platform, arch, startFiles, ffmpegPath, ffprobePath, status,
                   dirs, plan, dl, archive, proc, zip, extractPromise, extracted,
                   normVars, tmpVars>>

\* Lines 368-383: ffmpeg was downloaded to ffmpegPath; make it executable and
\* start the README and LICENSE downloads.
ThenFfmpegDocs ==
    /\ status = "running"
    /\ pc = "ffmpegDownload"
    /\ ~plan.isCustomFFmpeg
    /\ dl["ffmpeg"].state = "fulfilled"
    /\ \E chmodded \in BOOLEAN :
         IF makesExecutable(platform) /\ ~chmodded
         THEN /\ steps' = [steps EXCEPT !.chmodFfmpeg = "threw"]
              /\ pc' = "ffmpegRejected"
              /\ UNCHANGED dl
         ELSE /\ steps' = [steps EXCEPT !.chmodFfmpeg =
                               IF makesExecutable(platform) THEN "ok" ELSE "none"]
              /\ dl' = downloadFile2(
                         "ffmpegReadme", docUrl(platform, arch, "README"),
                         docPath(ffmpegPath, "README"),
                         "ffmpegLicense", docUrl(platform, arch, "LICENSE"),
                         docPath(ffmpegPath, "LICENSE"))
              /\ pc' = "ffmpegDocs"
    /\ UNCHANGED <<platform, arch, startFiles, finalFile, ffmpegPath, ffprobePath,
                   status, dirs, plan, archive, proc, zip, extractPromise,
                   extracted, normVars, tmpVars>>

\* downloadFile(...) without its .catch: rejected when the download fails.
uncaught(i) ==
    CASE dl[i].state = "rejected" -> "rejected"
      [] dl[i].state = "fulfilled" -> "fulfilled"
      [] OTHER -> "pending"

\* downloadFile(...).catch(warnWith(...)): fulfilled however the download ends.
caught(i) == IF settled(i) THEN "fulfilled" ELSE "pending"

\* Promise.all of two promises.
promiseAll(a, b) ==
    CASE a = "rejected" \/ b = "rejected" -> "rejected"
      [] a = "fulfilled" /\ b = "fulfilled" -> "fulfilled"
      [] OTHER -> "pending"

\* install.js 379-382
ffmpegDocs == promiseAll(caught("ffmpegReadme"), caught("ffmpegLicense"))

\* install.js 407-410
ffprobeDocs == promiseAll(caught("ffprobeReadme"), caught("ffprobeLicense"))

\* The state of ffmpegPromise.
ffmpegPromise ==
    CASE pc = "ffmpegRejected" -> "rejected"
      [] pc = "ffmpegFulfilled" -> "fulfilled"
      [] pc = "ffmpegDownload" /\ dl["ffmpeg"].state = "rejected" -> "rejected"
      [] pc = "extract" /\ extractPromise = "rejected" -> "rejected"
      [] pc = "ffmpegDocs" -> ffmpegDocs
      [] OTHER -> "pending"

\* Lines 387-390: ffmpegPromise.catch: log and process.exit(1).
FfmpegCatch ==
    /\ status = "running"
    /\ ffmpegPromise = "rejected"
    /\ exit("exit1")
    /\ UNCHANGED <<platform, arch, startFiles, finalFile, ffmpegPath, ffprobePath,
                   dirs, plan, dl, archive, proc, zip, extractPromise, extracted,
                   steps, normVars, tmpVars>>

(***************************************************************************)
(* install.js 392-424: download and install ffprobe, clean up              *)
(***************************************************************************)
\* Line 394: ffmpegPromise.then(() => downloadFile(ffprobeDownloadUrl, ffprobePath))
StartFfprobe ==
    /\ status = "running"
    /\ ffmpegPromise = "fulfilled"
    /\ dl' = downloadFile("ffprobe", plan.ffprobeDownloadUrl, ffprobePath)
    /\ pc' = "ffprobeDownload"
    /\ UNCHANGED <<platform, arch, startFiles, finalFile, ffmpegPath, ffprobePath,
                   status, dirs, plan, archive, proc, zip, extractPromise,
                   extracted, steps, normVars, tmpVars>>

\* Lines 395-411: make ffprobe executable, start its README and LICENSE
\* downloads.
ThenFfprobeDocs ==
    /\ status = "running"
    /\ pc = "ffprobeDownload"
    /\ dl["ffprobe"].state = "fulfilled"
    /\ \E chmodded \in BOOLEAN :
         IF makesExecutable(platform) /\ ~chmodded
         THEN /\ steps' = [steps EXCEPT !.chmodFfprobe = "threw"]
              /\ pc' = "ffprobeRejected"
              /\ UNCHANGED dl
         ELSE /\ steps' = [steps EXCEPT !.chmodFfprobe =
                               IF makesExecutable(platform) THEN "ok" ELSE "none"]
              /\ dl' = downloadFile2(
                         "ffprobeReadme", docUrl(platform, arch, "README"),
                         docPath(ffprobePath, "README"),
                         "ffprobeLicense", docUrl(platform, arch, "LICENSE"),
                         docPath(ffprobePath, "LICENSE"))
              /\ pc' = "ffprobeDocs"
    /\ UNCHANGED <<platform, arch, startFiles, finalFile, ffmpegPath, ffprobePath,
                   status, dirs, plan, archive, proc, zip, extractPromise,
                   extracted, normVars, tmpVars>>

\* The cleanup step without its try/catch: a throw rejects the chain.
afterCleanupUncaught(threw) == IF threw THEN "ffprobeRejected" ELSE "done"

\* What fs.rmSync in its try/catch leads to: the chain goes on either way.
afterCleanup(threw) == "done"

\* Lines 412-420: remove tempDir; a throw is caught and logged.
Cleanup ==
    /\ status = "running"
    /\ pc = "ffprobeDocs"
    /\ ffprobeDocs = "fulfilled"
    /\ \E threw \in BOOLEAN :
         /\ steps' = [steps EXCEPT !.cleanup = IF threw THEN "threw" ELSE "ok"]
         /\ dirs' = IF threw THEN dirs
                    ELSE [dirs EXCEPT !.tempDir = "removed", !.extractDir = "removed"]
         /\ archive' = IF threw THEN archive ELSE "none"
         /\ extracted' = IF threw THEN extracted ELSE {}
         /\ pc' = afterCleanup(threw)
    /\ UNCHANGED <<platform, arch, startFiles, finalFile, ffmpegPath, ffprobePath,
                   status, plan, dl, proc, zip, extractPromise, normVars, tmpVars>>

\* The state of the chain that starts at line 393, seen by its catch.
ffprobeChain ==
    CASE ffmpegPromise = "rejected" -> "rejected"
      [] pc = "ffprobeRejected" -> "rejected"
      [] pc = "ffprobeDownload" /\ dl["ffprobe"].state = "rejected" -> "rejected"
      [] pc = "ffprobeDocs" /\ ffprobeDocs = "rejected" -> "rejected"
      [] pc = "done" -> "fulfilled"
      [] OTHER -> "pending"

\* Lines 421-424: the chain's catch: log and process.exit(1). When it is
\* ffmpegPromise that rejected, the catch of line 387 was registered first,
\* runs first and ends the process.
FfprobeCatch ==
    /\ status = "running"
    /\ ffprobeChain = "rejected"
    /\ ffmpegPromise # "rejected"
    /\ exit("exit1")
    /\ UNCHANGED <<platform, arch, startFiles, finalFile, ffmpegPath, ffprobePath,
                   dirs, plan, dl, archive, proc, zip, extractPromise, extracted,
                   steps, normVars, tmpVars>>

\* Nothing is left to run: node exits with status 0 once the chain has ended
\* and no child process is still alive.
ProcessEnd ==
    /\ status = "running"
    /\ pc = "done"
    /\ proc.xz # "running"
    /\ proc.tar # "running"
    /\ status' = "exit0"
    /\ UNCHANGED <<platform, arch, startFiles, finalFile, ffmpegPath, ffprobePath,
                   pc, dirs, plan, dl, archive, proc, zip, extractPromise,
                   extracted, steps, normVars, tmpVars>>

Next ==
    \/ CheckExisting
    \/ CreateDirs
    \/ Resolve
    \/ StartFfmpeg
    \/ \E i \in DlIds : Response(i)
    \/ \E i \in DlIds : PipelineDone(i)
    \/ ThenExtract
    \/ XzExit
    \/ XzError
    \/ TarClose
    \/ TarError
    \/ ZipOpen
    \/ ZipEntry
    \/ ZipReadStream
    \/ ZipPipeEnds
    \/ ZipEnd
    \/ ZipError
    \/ InstallFfmpeg
    \/ ThenFfmpegDocs
    \/ FfmpegCatch
    \/ StartFfprobe
    \/ ThenFfprobeDocs
    \/ Cleanup
    \/ FfprobeCatch
    \/ ProcessEnd

Spec == Init /\ [][Next]_vars

\* Every request, stream and child process ends by signalling completion or
\* an error, and node runs every callback that is ready: a step that can be
\* taken is taken.
SpecLive == Spec /\ WF_vars(Next)

(***************************************************************************)
(* install.js 56-65: normalizeS3Url                                        *)
(*                                                                         *)
(* A URL string is modelled by its parts: the host as its dot-separated    *)
(* labels, whether a path is written, and the query as the sequence of its *)
(* key=value pairs. A key is the sequence of its characters.               *)
(***************************************************************************)
\* The most query parameters a URL of the model carries.
MaxParams == 3

\* String.prototype.toLowerCase on the characters and labels the model uses.
toLowerCase(c) ==
    CASE c = "X" -> "x"
      [] c = "A" -> "a"
      [] c = "M" -> "m"
      [] c = "Z" -> "z"
      [] c = "EXAMPLE" -> "example"
      [] c = "S3" -> "s3"
      [] OTHER -> c

lowerAll(seq) == [n \in 1..Len(seq) |-> toLowerCase(seq[n])]

\* String.prototype.slice(0, n)
slice0(seq, n) == SubSeq(seq, 1, IF Len(seq) < n THEN Len(seq) ELSE n)

\* 'x-amz-'
xAmzPrefix == <<"x", "-", "a", "m", "z", "-">>

QueryKeys ==
    {<<"X", "-", "A", "m", "z", "-", "D", "a", "t", "e">>,
     <<"x", "-", "a", "m", "z", "-", "s", "i", "g">>,
     <<"X", "-", "A", "m", "z">>,
     <<"i", "d">>}

QueryVals == {"1", "2"}

QueryPairs == [key : QueryKeys, val : QueryVals]

Hosts ==
    {<<"example", "org">>, <<"EXAMPLE", "org">>,
     <<"bucket", "s3", "amazonaws", "com">>, <<"bucket", "S3", "amazonaws", "com">>,
     <<"s3", "amazonaws", "com">>}

Urls ==
    [host : Hosts, path : {<<>>, <<"obj">>},
     query : UNION {[1..n -> QueryPairs] : n \in 0..MaxParams}]

\* new URL(url): the host is lower-cased and an absent path becomes "/".
parseUrl(u) ==
    [host |-> lowerAll(u.host),
     path |-> IF u.path = <<>> THEN <<"">> ELSE u.path,
     query |-> u.query]

\* url.hostname.slice(-17) !== '.s3.amazonaws.com', on the labels: the host
\* ends in ".s3.amazonaws.com", so at least one label comes before "s3".
isS3Host(h) ==
    /\ Len(h) >= 4
    /\ SubSeq(h, Len(h) - 2, Len(h)) = <<"s3", "amazonaws", "com">>

\* install.js 61: key.slice(0, 6).toLowerCase() !== 'x-amz-'
keepsParam(p) == lowerAll(slice0(p.key, 6)) # xAmzPrefix

\* install.js 62: reduce((query, [key, val]) => ({...query, [key]: val}), {}).
\* An object holds a key once: a repeated key keeps its first place and takes
\* the last value.
RECURSIVE toObject(_, _)
toObject(obj, pairs) ==
    IF pairs = <<>> THEN obj
    ELSE LET p == Head(pairs)
             at == {n \in 1..Len(obj) : obj[n].key = p.key}
         IN toObject(IF at = {} THEN Append(obj, p)
                     ELSE [n \in 1..Len(obj) |-> IF n \in at THEN p ELSE obj[n]],
                     Tail(pairs))

\* install.js 57-65
normalizeS3Url(u) ==
    LET parsed == parseUrl(u)
    IN IF ~isS3Host(parsed.host) THEN parsed
       ELSE [parsed EXCEPT !.query =
                 toObject(<<>>, SelectSeq(parsed.query, keepsParam))]

InitNorm ==
    /\ url \in {<<u>> : u \in Urls}
    /\ href = <<>>
    /\ platform = "linux"
    /\ arch = "x64"
    /\ startFiles = [b \in Bins |-> "ENOENT"]
    /\ finalFile = startFiles
    /\ ffmpegPath = null
    /\ ffprobePath = null
    /\ pc = "selfTest"
    /\ status = "running"
    /\ dirs = [tempDir |-> "none", extractDir |-> "none", binDir |-> "unknown"]
    /\ plan = NoPlan
    /\ dl = [i \in DlIds |-> NoDownload]
    /\ archive = "none"
    /\ proc = [xz |-> "none", tar |-> "none"]
    /\ zip = [state |-> "none", entries |-> <<>>, processed |-> <<>>,
              error |-> "none"]
    /\ extractPromise = "none"
    /\ extracted = {}
    /\ steps = [copy |-> "none", chmodFfmpeg |-> "none", chmodFfprobe |-> "none",
                cleanup |-> "none"]
    /\ now = 0
    /\ runs = [r \in Runs |-> NoRun]
    /\ tmpDirs = {}
    /\ tmpFiles = {}

\* A call of normalizeS3Url: the self-tests of lines 67-74, cache.getCacheKey.
Normalize ==
    /\ href = <<>>
    /\ href' = <<normalizeS3Url(url[1])>>
    /\ UNCHANGED <<url, runVars, tmpVars>>

NextNorm == Normalize

SpecNorm == InitNorm /\ [][NextNorm]_vars

(***************************************************************************)
(* install.js 246-250, 324, 412-418: the temporary directory of a run, with *)
(* a second installer process running on the same machine.                 *)
(*                                                                         *)
(* Each process is followed through the steps that touch os.tmpdir(): the  *)
(* directory is named and made, the archive downloaded into it, extracted  *)
(* under it, and the directory removed.                                    *)
(***************************************************************************)
\* The last millisecond the clock of the model reaches.
MaxClock == 2

\* path.join(tempDir, ffmpegFileName): both processes run on one platform, so
\* the archive has the same name in both.
ffmpegFileName == "ffmpeg-master-latest-linux64-nonfree.tar.xz"

\* path.join(extractDir, 'bin', ffmpegExe), the file the extraction writes
extractedBinary == "extracted/bin/ffmpeg"

\* A write of file `name` in directory d by run r: it replaces what was there.
writeFile(files, d, name, r) ==
    {f \in files : ~(f.dir = d /\ f.name = name)}
        \cup {[dir |-> d, name |-> name, by |-> r]}

InitRuns ==
    /\ now = 0
    /\ runs = [r \in Runs |-> NoRun]
    /\ tmpDirs = {}
    /\ tmpFiles = {}
    /\ url = <<>>
    /\ href = <<>>
    /\ platform = "linux"
    /\ arch = "x64"
    /\ startFiles = [b \in Bins |-> "ENOENT"]
    /\ finalFile = startFiles
    /\ ffmpegPath = null
    /\ ffprobePath = null
    /\ pc = "twoRuns"
    /\ status = "running"
    /\ dirs = [tempDir |-> "none", extractDir |-> "none", binDir |-> "unknown"]
    /\ plan = NoPlan
    /\ dl = [i \in DlIds |-> NoDownload]
    /\ archive = "none"
    /\ proc = [xz |-> "none", tar |-> "none"]
    /\ zip = [state |-> "none", entries |-> <<>>, processed |-> <<>>,
              error |-> "none"]
    /\ extractPromise = "none"
    /\ extracted = {}
    /\ steps = [copy |-> "none", chmodFfmpeg |-> "none", chmodFfprobe |-> "none",
                cleanup |-> "none"]

\* Time passes.
Tick ==
    /\ now < MaxClock
    /\ now' = now + 1
    /\ UNCHANGED <<runs, tmpDirs, tmpFiles, runVars, normVars>>

\* Lines 247-250: tempDir is `ffmpeg-static-${Date.now()}`; it and extractDir
\* are made unless they exist.
RunStart(r) ==
    /\ runs[r].pc = "idle"
    /\ runs' = [runs EXCEPT ![r] = [pc |-> "created", tempDir |-> now,
                                    fresh |-> now \notin tmpDirs]]
    /\ tmpDirs' = tmpDirs \cup {now}
    /\ UNCHANGED <<now, tmpFiles, runVars, normVars>>

\* Lines 324, 339: the archive is downloaded to path.join(tempDir,
\* ffmpegFileName). The download fails by itself, or because the directory is
\* gone; a failed run exits without removing anything.
RunDownload(r) ==
    /\ runs[r].pc = "created"
    /\ \E ok \in BOOLEAN :
         IF ok /\ runs[r].tempDir \in tmpDirs
         THEN /\ tmpFiles' = writeFile(tmpFiles, runs[r].tempDir, ffmpegFileName, r)
              /\ runs' = [runs EXCEPT ![r].pc = "downloaded"]
         ELSE /\ runs' = [runs EXCEPT ![r].pc = "failed"]
              /\ UNCHANGED tmpFiles
    /\ UNCHANGED <<now, tmpDirs, runVars, normVars>>

\* Lines 344-356: the archive at ffmpegDownloadPath is extracted under
\* extractDir. It fails when the archive or the directory is gone.
RunExtract(r) ==
    /\ runs[r].pc = "downloaded"
    /\ IF /\ runs[r].tempDir \in tmpDirs
          /\ \E f \in tmpFiles : f.dir = runs[r].tempDir /\ f.name = ffmpegFileName
       THEN /\ tmpFiles' = writeFile(tmpFiles, runs[r].tempDir, extractedBinary, r)
            /\ runs' = [runs EXCEPT ![r].pc = "extracted"]
       ELSE /\ runs' = [runs EXCEPT ![r].pc = "failed"]
            /\ UNCHANGED tmpFiles
    /\ UNCHANGED <<now, tmpDirs, runVars, normVars>>

\* Lines 412-418: fs.rmSync(tempDir, { recursive: true, force: true }), at the
\* end of a run, which lasts longer than a millisecond.
RunCleanup(r) ==
    /\ runs[r].pc = "extracted"
    /\ now > runs[r].tempDir
    /\ tmpDirs' = tmpDirs \ {runs[r].tempDir}
    /\ tmpFiles' = {f \in tmpFiles : f.dir # runs[r].tempDir}
    /\ runs' = [runs EXCEPT ![r].pc = "done"]
    /\ UNCHANGED <<now, runVars, normVars>>

NextRuns ==
    \/ Tick
    \/ \E r \in Runs : RunStart(r)
    \/ \E r \in Runs : RunDownload(r)
    \/ \E r \in Runs : RunExtract(r)
    \/ \E r \in Runs : RunCleanup(r)

SpecRuns == InitRuns /\ [][NextRuns]_vars

(***************************************************************************)
(* A sequence of runs: the script is run again after a run has ended, on   *)
(* the same machine, with what the runs before left at the final paths.    *)
(***************************************************************************)
\* The process has ended; `node install.js` is run again. Lines 1-29 start
\* over, index.js gives the same paths, and a new temporary directory will
\* be named.
Rerun ==
    /\ status # "running"
    /\ startFiles' = finalFile
    /\ ffmpegPath' = indexFfmpegPath(platform, arch)
    /\ ffprobePath' = indexFfprobePath(platform, arch)
    /\ pc' = "checkExisting"
    /\ status' = "running"
    /\ dirs' = [tempDir |-> "none", extractDir |-> "none", binDir |-> "unknown"]
    /\ plan' = NoPlan
    /\ dl' = [i \in DlIds |-> NoDownload]
    /\ archive' = "none"
    /\ proc' = [xz |-> "none", tar |-> "none"]
    /\ zip' = [state |-> "none", entries |-> <<>>, processed |-> <<>>,
               error |-> "none"]
    /\ extractPromise' = "none"
    /\ extracted' = {}
    /\ steps' = [copy |-> "none", chmodFfmpeg |-> "none", chmodFfprobe |-> "none",
                 cleanup |-> "none"]
    /\ UNCHANGED <<platform, arch, finalFile, normVars, tmpVars>>

NextSequence ==
    \/ Next
    \/ Rerun

SpecSequence == Init /\ [][NextSequence]_vars

(***************************************************************************)
(* Vocabulary of the properties                                            *)
(***************************************************************************)
DocIds == {"ffmpegReadme", "ffmpegLicense", "ffprobeReadme", "ffprobeLicense"}

\* A download request has been issued.
requested(i) == dl[i].state # "idle"

noRequest == \A i \in DlIds : ~requested(i)

\* The run ended in the default branch of getOriginalPlatformName.
resolutionFailed ==
    /\ status = "exit1"
    /\ dirs.tempDir = "exists"
    /\ plan = NoPlan

\* The extraction step failed: a child process of extractTarXz exited with a
\* nonzero code or could not be launched, or extractZip met an error.
extractionFailed ==
    \/ proc.xz \in {"exitN", "error"}
    \/ proc.tar \in {"exitN", "error"}
    \/ zip.state = "failed"
    \/ status = "exit1" /\ zip.state \in {"reading", "openReadStream", "piping"}

\* A step of the primary binary's acquisition failed.
ffmpegStepFailed ==
    \/ dl["ffmpeg"].state = "rejected"
    \/ extractionFailed
    \/ steps.copy = "threw"
    \/ steps.chmodFfmpeg = "threw"

\* A required step of the run failed.
requiredStepFailed ==
    \/ resolutionFailed
    \/ ffmpegStepFailed
    \/ dl["ffprobe"].state = "rejected"
    \/ steps.chmodFfprobe = "threw"

\* The primary binary's install step is complete: downloaded, extracted and
\* copied where an archive is used, made executable off win32.
ffmpegInstalled ==
    /\ dl["ffmpeg"].state = "fulfilled"
    /\ plan.isCustomFFmpeg => extractPromise = "resolved" /\ steps.copy = "ok"
    /\ finalFile["ffmpeg"] = "file"
    /\ platform # "win32" => steps.chmodFfmpeg = "ok"

\* No extraction or install step has run.
noInstallStep ==
    /\ extractPromise = "none"
    /\ steps.copy = "none"
    /\ steps.chmodFfmpeg = "none"
    /\ steps.chmodFfprobe = "none"

\* Both final paths held regular files when the run began.
installedAtStart ==
    /\ startFiles["ffmpeg"] = "file"
    /\ startFiles["ffprobe"] = "file"

(***************************************************************************)
(* C1..C10                                                                 *)
(***************************************************************************)
\* C1: whenever both final install paths hold regular files at startup, for
\* every (platform, arch), the run issues no download request, performs no
\* extraction or install step and does not exit with status 1.
C1_ShortCircuit ==
    installedAtStart => noRequest /\ noInstallStep /\ status # "exit1"

\* C1 amended: for every (platform, arch) pair the support matrix reports as
\* supported, whenever both final install paths hold regular files at startup
\* the run issues no download request, touches no directory, performs no
\* extraction or install step and exits, at its first step, with status 0.
C1_ShortCircuitSupported ==
    ~unsupported(platform, arch) /\ installedAtStart =>
        /\ noRequest
        /\ noInstallStep
        /\ dirs.tempDir = "none"
        /\ pc \in {"checkExisting", "exited"}
        /\ pc = "exited" => status = "exit0"

\* C1 witness: a supported pair with both binaries in place has exited with
\* status 0.
C1_Witness ==
    /\ ~unsupported(platform, arch)
    /\ installedAtStart
    /\ status = "exit0"

\* C2: the ffprobe request is issued only once the ffmpeg install step has
\* completed successfully, and never when a step of the ffmpeg acquisition
\* failed.
C2_Sequencing ==
    /\ requested("ffprobe") => ffmpegInstalled
    /\ ffmpegStepFailed => ~requested("ffprobe")

\* C3: the process exits with status 0 only when the run reached DONE or the
\* short-circuit fired, and a run in which a required step failed never exits
\* with status 0.
C3_ExitStatus ==
    /\ status = "exit0" => pc = "done" \/ (installedAtStart /\ noRequest)
    /\ status = "exit0" => ~requiredStepFailed
    /\ requiredStepFailed /\ pc = "exited" => status = "exit1"

\* C4: a run that created the temporary directory has attempted to remove it
\* by the time the process has terminated.
C4_CleanupFinalizer ==
    status # "running" /\ dirs.tempDir # "none" => steps.cleanup # "none"

\* C5: when removing the temporary directory throws, the run is at DONE and
\* its exit status is never 1.
C5_CleanupNonFatal ==
    steps.cleanup = "threw" => pc = "done" /\ status # "exit1"

\* C5 witness: a run whose cleanup threw has exited with status 0.
C5_Witness ==
    steps.cleanup = "threw" /\ status = "exit0"


\* The existing-binaries check met a stat error other than ENOENT.
statFatal ==
    /\ ~unsupported(platform, arch)
    /\ existingCheck(startFiles["ffmpeg"], startFiles["ffprobe"]) = "fatal"

\* What the code exits with status 1 for, documentation downloads aside.
exitCause ==
    \/ statFatal
    \/ resolutionFailed
    \/ dl["ffmpeg"].state = "rejected"
    \/ dl["ffprobe"].state = "rejected"
    \/ extractPromise = "rejected"
    \/ zip.state \in {"reading", "openReadStream", "piping"}
    \/ steps.copy = "threw"
    \/ steps.chmodFfmpeg = "threw"
    \/ steps.chmodFfprobe = "threw"

\* C6: a failed README or LICENSE download never makes the run exit with
\* status 1 (an exit with status 1 always has another cause) and never keeps
\* the next step from running: once both documentation downloads of ffmpeg
\* have settled the ffprobe download can start, and once both of ffprobe have
\* settled the cleanup can run.
C6_DocsBestEffort ==
    /\ status = "exit1" => exitCause
    /\ (pc = "ffmpegDocs" /\ settled("ffmpegReadme") /\ settled("ffmpegLicense"))
           => ENABLED StartFfprobe
    /\ (pc = "ffprobeDocs" /\ settled("ffprobeReadme") /\ settled("ffprobeLicense"))
           => ENABLED Cleanup

\* C6 witness: documentation downloads of both binaries failed, one in each
\* way downloadFile can fail, and the run exited with status 0.
C6_Witness ==
    /\ dl["ffmpegReadme"].cause = "pipeline"
    /\ dl["ffmpegLicense"].cause = "status"
    /\ dl["ffprobeReadme"].cause = "transport"
    /\ dl["ffprobeLicense"].state = "rejected"
    /\ status = "exit0"

\* C7: when the run fails because the platform has no source mapping, no
\* request has been issued and neither the temporary nor the extraction
\* directory has been created.
C7_RejectBeforeIO ==
    resolutionFailed =>
        noRequest /\ dirs.tempDir = "none" /\ dirs.extractDir = "none"

\* C8: a (platform, arch) pair the support matrix reports as unsupported never
\* issues a request and never exits with status 0, and a pair it reports as
\* supported never fails in resolution.
C8_UnsupportedPairs ==
    /\ unsupported(platform, arch) => noRequest /\ status # "exit0"
    /\ ~unsupported(platform, arch) => ~resolutionFailed

\* C9: ffprobe is requested from the original source with its final path as
\* destination; ffmpeg is requested from the original source with its final
\* path as destination and never extracted on darwin, and from the custom
\* source into tempDir on win32 (zip) and linux (tar.xz), where it is
\* installed only from a finished extraction; yauzl runs only on a zip
\* archive, xz and tar only on a tar.xz archive.
C9_SourceSelection ==
    /\ requested("ffprobe") =>
         /\ dl["ffprobe"].url[1] = "originalBaseUrl"
         /\ dl["ffprobe"].url[2] = "ffprobe"
         /\ dl["ffprobe"].dest =
                <<"bin", IF platform = "win32" THEN "ffprobe.exe" ELSE "ffprobe">>
    /\ requested("ffmpeg") /\ platform = "darwin" =>
         /\ dl["ffmpeg"].url[1] = "originalBaseUrl"
         /\ dl["ffmpeg"].url[2] = "ffmpeg"
         /\ dl["ffmpeg"].dest = <<"bin", "ffmpeg">>
         /\ extractPromise = "none" /\ zip.state = "none" /\ proc.xz = "none"
    /\ requested("ffmpeg") /\ platform # "darwin" =>
         /\ platform \in {"win32", "linux"}
         /\ dl["ffmpeg"].url[1] = "ffmpegBaseUrl"
         /\ dl["ffmpeg"].url[4] = (IF platform = "win32" THEN "zip" ELSE "tar.xz")
         /\ dl["ffmpeg"].dest[1] = "tempDir"
         /\ dl["ffmpeg"].dest[3] = dl["ffmpeg"].url[4]
         /\ finalFile["ffmpeg"] # startFiles["ffmpeg"] => extractPromise = "resolved"
    /\ zip.state # "none" => dl["ffmpeg"].url[4] = "zip"
    /\ proc.xz # "none" \/ proc.tar # "none" => dl["ffmpeg"].url[4] = "tar.xz"

\* C9 witness: on linux the tar.xz archive was extracted by xz and tar and
\* ffprobe has been downloaded to its final path.
C9_Witness ==
    /\ platform = "linux"
    /\ proc.tar = "exit0"
    /\ dl["ffprobe"].state = "fulfilled"

\* The host is a cloud-storage host: it ends in .s3.amazonaws.com, whatever
\* the case it is written in.
isCloudStorage(u) == isS3Host(lowerAll(u.host))

\* The name starts with x-amz-, case-insensitively.
isSignatureParam(key) ==
    /\ Len(key) >= Len(xAmzPrefix)
    /\ lowerAll(SubSeq(key, 1, Len(xAmzPrefix))) = xAmzPrefix

\* How often the pair p occurs in a query.
occurrences(q, p) == Cardinality({n \in 1..Len(q) : q[n] = p})

\* C10: for a host that is not a cloud-storage host normalizeS3Url returns the
\* URL unchanged; for a cloud-storage host it returns the URL without its
\* x-amz- parameters and with every other parameter, repeated ones included,
\* as often as the URL carries it.
C10_Normalization ==
    href # <<>> =>
        IF ~isCloudStorage(url[1])
        THEN href[1] = url[1]
        ELSE \A p \in QueryPairs :
               occurrences(href[1].query, p) =
                   IF isSignatureParam(p.key) THEN 0
                   ELSE occurrences(url[1].query, p)

(***************************************************************************)
(* C11..C20                                                                *)
(***************************************************************************)
\* What a step may do to the promise of download i.
downloadStep(i) ==
    /\ settled(i) => dl'[i] = dl[i]
    /\ dl[i].state = "requested" /\ dl'[i].state # "requested" =>
         IF dl'[i].response # <<>> /\ dl'[i].response[2] = 200
         THEN dl'[i].state = "streaming"
         ELSE dl'[i].state = "rejected"
    /\ dl[i].state = "streaming" /\ dl'[i] # dl[i] =>
         dl'[i].state \in {"fulfilled", "rejected"}
    /\ dl'[i].state = "fulfilled" /\ dl[i].state # "fulfilled" =>
         /\ dl[i].state = "streaming"
         /\ i \in Bins => destKind(i)' = "file"

\* What holds of the promise of download i in every state.
downloadState(i) ==
    /\ dl[i].settleCalls = (IF settled(i) THEN 1 ELSE 0)
    /\ dl[i].state = "fulfilled" =>
         /\ dl[i].response # <<>>
         /\ dl[i].response[2] = 200
         /\ dl[i].errProps = <<>>
    /\ dl[i].state = "rejected" =>
         /\ dl[i].cause \in {"transport", "status", "pipeline"}
         /\ dl[i].cause = "transport" <=> dl[i].response = <<>>
         /\ dl[i].cause = "status" => dl[i].response[2] # 200
         /\ dl[i].response # <<>> => dl[i].errProps = dl[i].response

\* C11: the promise of downloadFile settles once and never changes after; a
\* transport error or a status other than 200 rejects it, a failed pipeline
\* rejects it, it is fulfilled only from a pipeline that finished with the
\* destination wholly written, and a rejection made while there is a response
\* carries the response's url and statusCode.
C11_DownloadSettles ==
    /\ [](\A i \in DlIds : downloadState(i))
    /\ [][\A i \in DlIds : downloadStep(i)]_vars

\* C11 witness: one download fulfilled, one rejected for its status with the
\* error carrying url and 500, one rejected by its pipeline with the error
\* carrying url and 200, one rejected by a transport error with nothing to
\* carry.
C11_Witness ==
    /\ dl["ffmpeg"].state = "fulfilled"
    /\ dl["ffmpegReadme"].cause = "status"
    /\ dl["ffmpegReadme"].errProps = <<dl["ffmpegReadme"].url, 500>>
    /\ dl["ffmpegLicense"].cause = "pipeline"
    /\ dl["ffmpegLicense"].errProps = <<dl["ffmpegLicense"].url, 200>>
    /\ dl["ffprobe"].cause = "transport"
    /\ dl["ffprobe"].errProps = <<>>


\* The secondary binary's install step is complete: downloaded to its final
\* path and made executable off win32.
ffprobeInstalled ==
    /\ dl["ffprobe"].state = "fulfilled"
    /\ finalFile["ffprobe"] = "file"
    /\ platform # "win32" => steps.chmodFfprobe = "ok"

\* Both documentation fetches of a binary have been attempted and have ended.
docsAttempted(b) ==
    IF b = "ffmpeg"
    THEN settled("ffmpegReadme") /\ settled("ffmpegLicense")
    ELSE settled("ffprobeReadme") /\ settled("ffprobeLicense")

\* C12: the steps of a run come in the order download ffmpeg, extract, install
\* ffmpeg, fetch the ffmpeg README and LICENSE, download ffprobe, install
\* ffprobe, fetch the ffprobe README and LICENSE, clean up, done: a step has
\* begun only if the one before it has been performed, on every platform.
C12_StepOrder ==
    /\ requested("ffmpegReadme") \/ requested("ffmpegLicense") =>
         dl["ffmpeg"].state = "fulfilled" /\ steps.chmodFfmpeg # "threw"
    /\ requested("ffprobe") => docsAttempted("ffmpeg")
    /\ requested("ffprobeReadme") \/ requested("ffprobeLicense") =>
         ffprobeInstalled
    /\ steps.cleanup # "none" => docsAttempted("ffprobe")
    /\ pc = "done" => steps.cleanup # "none"


\* A child process of extractTarXz exited with a nonzero code or could not
\* be launched.
childFailed(p) == proc[p] \in {"exitN", "error"}

\* C13: extractTarXz never resolves when xz or tar exited with a nonzero code
\* or failed to launch, and it has rejected once both processes have ended
\* and one of them failed.
C13_TarXzFailure ==
    childFailed("xz") \/ childFailed("tar") =>
        /\ extractPromise # "resolved"
        /\ proc.xz # "running" /\ proc.tar # "running" => extractPromise = "rejected"


\* What each entry read so far has to have been made into.
kindOf(name) == IF isDirectoryEntry(name) THEN "dir" ELSE "file"

\* extractZip has signalled completion.
zipResolved == zip.state # "none" /\ extractPromise = "resolved"

\* A step that takes an entry off the archive has finished that entry: its
\* directory made, or its file written and the write stream closed.
zipEntryStep ==
    zip.state # "opening" /\ zip'.entries # zip.entries =>
        /\ zip'.entries = Tail(zip.entries)
        /\ zip'.processed =
               Append(zip.processed,
                      made(Head(zip.entries), kindOf(Head(zip.entries)),
                           joinPath(entryPath(Head(zip.entries)))))
        /\ joinPath(entryPath(Head(zip.entries))) \in extracted'

\* C14: extractZip signals completion only when no entry is left to read and
\* none is being written, every entry read having been made into its
\* directory or its wholly written file; entries are taken one at a time, the
\* next only when the one before is finished.
C14_ZipCompletion ==
    /\ [](zipResolved =>
            /\ zip.state = "ended"
            /\ zip.entries = <<>>
            /\ \A n \in DOMAIN zip.processed :
                 zip.processed[n].kind = kindOf(zip.processed[n].name))
    /\ [](zip.state \in {"openReadStream", "piping"} => extractPromise = "pending")
    /\ [][zipEntryStep]_vars

\* C14 witness: an archive of a directory entry and a file entry has been
\* extracted and completion signalled.
C14_Witness ==
    /\ zipResolved
    /\ Len(zip.processed) = 2
    /\ zip.processed[1].kind = "dir"
    /\ zip.processed[2].kind = "file"


\* C15: an error met while opening the archive, opening an entry's read
\* stream, reading an entry or writing its output file makes extractZip
\* reject; after it no entry is requested or written, and extractZip does not
\* signal completion.
C15_ZipErrors ==
    /\ [](zip.error \in {"open", "openReadStream", "read", "write"} =>
            extractPromise = "rejected")
    /\ [][zip.error # "none" => zip' = zip /\ extracted' \subseteq extracted]_vars


\* The entry's name without its first segment, as a path: the empty last
\* segment of a directory entry's name is no part of the path.
stripped(name) ==
    LET rest == SubSeq(name, 2, Len(name))
    IN IF rest # <<>> /\ rest[Len(rest)] = ""
       THEN SubSeq(rest, 1, Len(rest) - 1)
       ELSE rest

\* The path and the directories above it, up to the output directory <<>>.
upTo(p) == {SubSeq(p, 1, k) : k \in 0..Len(p)}

\* The names of the archive's entries, read or not.
zipNames ==
    {zip.processed[n].name : n \in DOMAIN zip.processed}
        \cup {zip.entries[n] : n \in DOMAIN zip.entries}

\* C16: every entry extractZip has processed was made at its path without the
\* first segment, under the output directory: a directory for a name ending
\* in '/', a file with its parent directories otherwise; and nothing is
\* written anywhere but at these paths and the directories above them.
C16_ZipPathStripping ==
    /\ \A n \in DOMAIN zip.processed :
         LET r == zip.processed[n]
         IN /\ r.at = stripped(r.name)
            /\ r.kind = (IF r.name[Len(r.name)] = "" THEN "dir" ELSE "file")
            /\ steps.cleanup # "ok" => upTo(r.at) \ {<<>>} \subseteq extracted
    /\ zip.state # "none" =>
         extracted \subseteq UNION {upTo(stripped(name)) : name \in zipNames}

\* C16 witness: root/bin/ was made as the directory bin, with no file in it,
\* root/LICENSE.txt was written as LICENSE.txt, and the extraction completed.
C16_Witness ==
    /\ zipResolved
    /\ Len(zip.processed) = 2
    /\ zip.processed[1] = made(<<"root", "bin", "">>, "dir", <<"bin">>)
    /\ zip.processed[2] =
           made(<<"root", "LICENSE.txt">>, "file", <<"LICENSE.txt">>)
    /\ extracted = {<<>>, <<"bin">>, <<"LICENSE.txt">>}


\* C17: off win32 a run that reaches DONE by installing has made both final
\* binaries executable, each after its content was wholly written; a throw of
\* the copy or of a chmod never leads to DONE or to exit status 0 and has led
\* to status 1 once the process has exited; on win32 no chmod is performed.
C17_ExecutablePermissions ==
    /\ pc = "done" /\ platform # "win32" =>
         /\ steps.chmodFfmpeg = "ok"
         /\ steps.chmodFfprobe = "ok"
         /\ finalFile["ffmpeg"] = "file"
         /\ finalFile["ffprobe"] = "file"
    /\ steps.chmodFfmpeg = "ok" =>
         /\ finalFile["ffmpeg"] = "file"
         /\ plan.isCustomFFmpeg => steps.copy = "ok"
         /\ ~plan.isCustomFFmpeg => dl["ffmpeg"].state = "fulfilled"
    /\ steps.chmodFfprobe = "ok" =>
         finalFile["ffprobe"] = "file" /\ dl["ffprobe"].state = "fulfilled"
    /\ "threw" \in {steps.copy, steps.chmodFfmpeg, steps.chmodFfprobe} =>
         /\ pc \in {"ffmpegRejected", "ffprobeRejected", "exited"}
         /\ status # "exit0"
         /\ pc = "exited" => status = "exit1"
    /\ platform = "win32" =>
         steps.chmodFfmpeg = "none" /\ steps.chmodFfprobe = "none"

\* C17 witness: a linux run has installed both binaries, made both executable
\* and exited with status 0.
C17_Witness ==
    /\ platform = "linux"
    /\ steps.copy = "ok"
    /\ steps.chmodFfmpeg = "ok"
    /\ steps.chmodFfprobe = "ok"
    /\ status = "exit0"


\* Run r has named and made its temporary directory.
started(r) == runs[r].tempDir # -1

\* Run r's file `name` is in its temporary directory, as run r wrote it.
hasOwn(r, name) ==
    [dir |-> runs[r].tempDir, name |-> name, by |-> r] \in tmpFiles

\* C18: two runs never have the same temporary directory, each run made its
\* directory itself, and what a run wrote there stays there, as the run wrote
\* it, until the run removes it.
C18_TempDirOwnership ==
    /\ \A r \in Runs, q \in Runs :
         r # q /\ started(r) /\ started(q) => runs[r].tempDir # runs[q].tempDir
    /\ \A r \in Runs : started(r) => runs[r].fresh
    /\ \A r \in Runs :
         /\ runs[r].pc \in {"downloaded", "extracted"} => hasOwn(r, ffmpegFileName)
         /\ runs[r].pc = "extracted" => hasOwn(r, extractedBinary)


\* The run ended in the existing-binaries check reporting both binaries as
\* installed.
shortCircuited == status = "exit0" /\ pc = "exited"

\* C19: in a sequence of runs, a run takes the already-installed short-circuit
\* only when both final paths hold wholly written binaries: what a failed
\* download left at a final path never makes a later run report success.
C19_ShortCircuitSound ==
    shortCircuited => \A b \in Bins : finalFile[b] = "file"


\* C20: every run ends, with exit status 0 or with exit status 1, and the
\* status of an ended run stays what it is: no failure of a download, of xz
\* or tar, or of a zip entry's read or write leaves the run waiting.
C20_Termination ==
    /\ <>(status \in {"exit0", "exit1"})
    /\ [][status # "running" => status' = status]_vars

\* C20 witness: runs have ended with status 1 after tar exited with a nonzero
\* code.
C20_Witness ==
    /\ proc.tar = "exitN"
    /\ extractPromise = "rejected"
    /\ status = "exit1"

====
